---------------------------- MODULE Spec2Model ----------------------------
(***************************************************************************)
(* Model of the shape hierarchy of Shape.cc and Shape_RAII.cc: the classes *)
(* Shape, Circle, Polygon, Rectangle, Square and Trapezoid, the operations *)
(* a client can apply to them, and the two main() drivers (manual          *)
(* new/delete, and shared_ptr/unique_ptr).                                 *)
(*                                                                         *)
(* Numbers.  A C++ double is modelled by an exact rational [n, d] in       *)
(* lowest terms.  +, -, * and /2 are exact in the model (binary64 rounds   *)
(* them with relative error 2^-53, which no statement below depends on);   *)
(* sqrt, whose result is irrational in general, is rounded to the nearest  *)
(* value with Prec significant bits, as binary64 does with 53.  Stream     *)
(* output of a double rounds to 6 significant decimal digits.              *)
(***************************************************************************)
EXTENDS Integers, Sequences, FiniteSets, TLC

\* ------------------------------------------------------------------ bounds
\* Objects constructed in one run of the clients that create, share, copy,
\* rename and destroy shapes.
MaxObjs == 2
\* Objects constructed in one run of the client that computes with shapes.
MaxShapes == 1
\* Diagnostic lines written in one run of a client.
MaxOut == 3
\* shared_ptr handles on one object in the client specifications.
MaxUse == 2
\* Significant bits kept by sqrt (binary64 keeps 53).
Prec == 10

\* --------------------------------------------------------------- doubles
Abs(i) == IF i < 0 THEN -i ELSE i

RECURSIVE Gcd(_, _)
Gcd(a, b) == IF b = 0 THEN a ELSE Gcd(b, a % b)

RECURSIVE Pow(_, _)
Pow(b, k) == IF k = 0 THEN 1 ELSE b * Pow(b, k - 1)

\* The double n/d, in lowest terms with a positive denominator.
Q(n, d) ==
  LET g == Gcd(Abs(n), Abs(d))
      s == IF d < 0 THEN -1 ELSE 1
  IN  [n |-> s * (n \div g), d |-> s * (d \div g)]

QInt(i) == [n |-> i, d |-> 1]
QAdd(x, y) == Q(x.n * y.d + y.n * x.d, x.d * y.d)
QSub(x, y) == Q(x.n * y.d - y.n * x.d, x.d * y.d)
QMul(x, y) == Q(x.n * y.n, x.d * y.d)
QHalf(x) == Q(x.n, 2 * x.d)
\* x < y and x <= y, cross-multiplied by the denominators over their common
\* divisor.
QLt(x, y) == x.n * (y.d \div Gcd(x.d, y.d)) < y.n * (x.d \div Gcd(x.d, y.d))
QLe(x, y) == x.n * (y.d \div Gcd(x.d, y.d)) <= y.n * (x.d \div Gcd(x.d, y.d))

\* const double PI = 3.14159;
PI == Q(314159, 100000)

\* pow(x, 2)
PowTwo(x) == QMul(x, x)

\* The binary exponent e of x > 0: 4^e <= x < 4^(e+1), so 2^e <= sqrt(x) < 2^(e+1).
RECURSIVE SqrtExp(_, _)
SqrtExp(x, e) ==
  IF QLt(x, QInt(1))
    THEN SqrtExp(QMul(x, QInt(4)), e - 1)
    ELSE IF QLe(QInt(4), x) THEN SqrtExp(Q(x.n, 4 * x.d), e + 1) ELSE e

\* x * 2^k for any integer k.
Scale2(x, k) == IF k >= 0 THEN QMul(x, QInt(Pow(2, k))) ELSE Q(x.n, x.d * Pow(2, -k))

\* sqrt(x) for x >= 0, correctly rounded (ties to even) to Prec significant bits:
\* with y = x * 4^(Prec-1-e) in [4^(Prec-1), 4^Prec), the significand is the
\* integer nearest to sqrt(y).
Sqrt(x) ==
  IF x.n = 0 THEN QInt(0)
  ELSE
    LET e == SqrtExp(x, 0)
        y == Scale2(x, 2 * (Prec - 1 - e))
        f == CHOOSE m \in Pow(2, Prec - 1) .. Pow(2, Prec) :
               /\ QLe(QInt(m * m), y)
               /\ QLt(y, QInt((m + 1) * (m + 1)))
        \* sqrt(y) > f + 1/2  iff  4y > (2f+1)^2
        mid == QInt((2 * f + 1) * (2 * f + 1))
        y4 == QMul(y, QInt(4))
        up == \/ QLt(mid, y4)
              \/ (mid = y4 /\ f % 2 = 1)
        m == IF up THEN f + 1 ELSE f
    IN  Scale2(QInt(m), e - (Prec - 1))

\* ----------------------------------------------------- stream formatting
\* ostream << double with the default precision of 6: the value rounded (ties
\* to even) to 6 significant decimal digits, trailing zeros dropped.  The text
\* is determined by the sign, the digits and the decimal exponent of the first
\* digit: 0.001953125 prints as [neg FALSE, dig 195312, exp -3].
StreamPrecision == 6

RECURSIVE DecExp(_, _)
DecExp(x, e) ==
  IF QLt(x, QInt(1))
    THEN DecExp(QMul(x, QInt(10)), e - 1)
    ELSE IF QLe(QInt(10), x) THEN DecExp(Q(x.n, 10 * x.d), e + 1) ELSE e

RECURSIVE StripZeros(_)
StripZeros(m) == IF m # 0 /\ m % 10 = 0 THEN StripZeros(m \div 10) ELSE m

FormatDouble(x) ==
  IF x.n = 0 THEN [neg |-> FALSE, dig |-> 0, exp |-> 0]
  ELSE
    LET a == Q(Abs(x.n), x.d)
        e == DecExp(a, 0)
        \* a * 10^(StreamPrecision-1-e), in [10^5, 10^6), as f + r/den
        k == StreamPrecision - 1 - e
        den == IF k >= 0 THEN a.d ELSE a.d * Pow(10, -k)
        frac == IF k >= 0 THEN (a.n % a.d) * Pow(10, k) ELSE a.n
        whole == IF k >= 0 THEN (a.n \div a.d) * Pow(10, k) ELSE 0
        f == whole + (frac \div den)
        r == frac % den
        up == 2 * r > den \/ (2 * r = den /\ f % 2 = 1)
        m == IF up THEN f + 1 ELSE f
        carry == m = Pow(10, StreamPrecision)
    IN  [neg |-> x.n < 0,
         dig |-> StripZeros(m),
         exp |-> IF carry THEN e + 1 ELSE e]

\* ------------------------------------------------------- class hierarchy
Classes == {"Shape", "Circle", "Polygon", "Rectangle", "Square", "Trapezoid"}

\* class Circle: public Shape, class Polygon: public Shape, ...
BaseOf(c) ==
  CASE c = "Circle" -> "Shape"
    [] c = "Polygon" -> "Shape"
    [] c = "Rectangle" -> "Polygon"
    [] c = "Square" -> "Rectangle"
    [] c = "Trapezoid" -> "Polygon"
    [] OTHER -> "none"

\* c and its base classes, most derived first.
RECURSIVE Lineage(_)
Lineage(c) == IF c = "none" THEN <<>> ELSE <<c>> \o Lineage(BaseOf(c))

\* The static types a handle to an object of class c can have.
StaticTypes(c) == {Lineage(c)[i] : i \in 1 .. Len(Lineage(c))}

\* The member functions each class body defines ("dtor" is the destructor).
Defines(c) ==
  CASE c = "Shape" -> {"dtor", "get_name"}
    [] c = "Circle" -> {"dtor", "get_area", "get_perimeter"}
    [] c = "Polygon" -> {"dtor", "get_area", "get_perimeter"}
    [] c = "Rectangle" -> {"dtor", "get_perimeter"}
    [] c = "Square" -> {"dtor", "get_area"}
    [] c = "Trapezoid" -> {"dtor"}

\* Member functions declared virtual in Shape: the destructor and the two pure
\* virtual accessors.  get_name is not virtual.
IsVirtual(m) == m \in {"dtor", "get_area", "get_perimeter"}

\* The nearest class at or above c that defines m.
RECURSIVE Overrider(_, _)
Overrider(c, m) == IF m \in Defines(c) THEN c ELSE Overrider(BaseOf(c), m)

\* The class whose body runs when m is called through a handle of static type
\* static on an object of class dyn.
StaticDispatch(static, dyn, m) == Overrider(static, m)

Dispatch(static, dyn, m) ==
  IF IsVirtual(m) THEN Overrider(dyn, m) ELSE Overrider(static, m)

\* ----------------------------------------------------------- constructors
\* A member that no constructor has written yet.
Indeterminate == "indeterminate"

ShapeCtorUnnamed(name) == [m_name |-> ""]

\* Shape(string name) :m_name(name)
ShapeCtor(name) == [m_name |-> name]

\* Polygon(string name, unsigned int sides): m_area and m_perimeter are left to
\* the derived constructor.
PolygonCtor(name, sides) ==
  ShapeCtor(name) @@
    [m_sides |-> sides, m_area |-> Indeterminate, m_perimeter |-> Indeterminate]

CircleCtorNoTwo(name, radius) ==
  ShapeCtor(name) @@
    [m_radius |-> radius,
     m_area |-> QMul(QMul(radius, radius), PI),
     m_perimeter |-> QMul(radius, PI)]

CircleCtor(name, radius) ==
  ShapeCtor(name) @@
    [m_radius |-> radius,
     m_area |-> QMul(QMul(radius, radius), PI),
     m_perimeter |-> QMul(QMul(radius, QInt(2)), PI)]

RectangleCtorHalfPerimeter(name, side1, side2) ==
  [PolygonCtor(name, 4) @@ [m_side1 |-> side1, m_side2 |-> side2]
     EXCEPT !.m_area = QMul(side1, side2),
            !.m_perimeter = QAdd(side1, side2)]

RectangleCtor(name, side1, side2) ==
  [PolygonCtor(name, 4) @@ [m_side1 |-> side1, m_side2 |-> side2]
     EXCEPT !.m_area = QMul(side1, side2),
            !.m_perimeter = QMul(QAdd(side1, side2), QInt(2))]

\* Square(string name, double side) :Rectangle(name, side, side)
SquareCtor(name, side) == RectangleCtor(name, side, side)

\* The Trapezoid constructor, given the address p that `new double` returned:
\* the object's members and the value stored at p.
TrapezoidCtorOneSide(name, long_side, short_side, height, p) ==
  LET angled == Sqrt(QAdd(PowTwo(QHalf(QSub(long_side, short_side))),
                          PowTwo(height)))
  IN  [obj |->
         [PolygonCtor(name, 4) @@
            [m_long_side |-> long_side, m_short_side |-> short_side,
             m_height |-> height, m_angled_side_length |-> p]
          EXCEPT !.m_area = QHalf(QMul(height, QAdd(long_side, short_side))),
                 !.m_perimeter = QAdd(QAdd(short_side, long_side), angled)],
       pointee |-> angled]

TrapezoidCtor(name, long_side, short_side, height, p) ==
  LET angled == Sqrt(QAdd(PowTwo(QHalf(QSub(long_side, short_side))),
                          PowTwo(height)))
  IN  [obj |->
         [PolygonCtor(name, 4) @@
            [m_long_side |-> long_side, m_short_side |-> short_side,
             m_height |-> height, m_angled_side_length |-> p]
          EXCEPT !.m_area = QHalf(QMul(height, QAdd(long_side, short_side))),
                 !.m_perimeter = QAdd(QAdd(short_side, long_side),
                                      QMul(QInt(2), angled))],
       pointee |-> angled]

\* ------------------------------------------------------- member functions
\* cout<<"The square of "<<m_side1<<"!"<<endl;
SquareLine(side) == <<"The square of ", FormatDouble(side), "!", "\n">>

\* The body of get_area in class impl, run on an object with members f: the
\* value returned and the lines written to standard output.
GetAreaBodySilent(impl, f) == [val |-> f.m_area, lines |-> <<>>]

GetAreaBody(impl, f) ==
  IF impl = "Square"
    THEN [val |-> f.m_area, lines |-> <<SquareLine(f.m_side1)>>]
    ELSE [val |-> f.m_area, lines |-> <<>>]

\* The body of get_perimeter in class impl (Circle, Polygon or Rectangle).
GetPerimeterBody(impl, f) == [val |-> f.m_perimeter, lines |-> <<>>]

\* string& get_name(void) { return m_name; }
GetNameBody(impl, f) == [val |-> f.m_name, lines |-> <<>>]

\* A call of member function m through a handle of static type static on a
\* live object of class dyn with members f.
Call(static, dyn, m, f) ==
  LET impl == Dispatch(static, dyn, m)
  IN  CASE m = "get_area" -> GetAreaBody(impl, f)
        [] m = "get_perimeter" -> GetPerimeterBody(impl, f)
        [] m = "get_name" -> GetNameBody(impl, f)

\* The destructor bodies that run, in order, when an object of class dyn is
\* destroyed through a handle of static type static.
DtorChain(static, dyn) == Lineage(Dispatch(static, dyn, "dtor"))

\* The addresses the destructor bodies in chain pass to delete: ~Trapezoid
\* deletes m_angled_side_length, the other destructors are empty.
DtorDeletesNothing(chain, f) == {}

DtorDeletes(chain, f) ==
  {f.m_angled_side_length : i \in {j \in 1 .. Len(chain) : chain[j] = "Trapezoid"}}


\* ------------------------------------------------------------------ state
VARIABLES
  heap,   \* object id -> the object: free, live (class and members) or dead
          \* (class and the destructor bodies that ran)
  cells,  \* address -> the double allocated by `new double` in Trapezoid
  own,    \* object id -> how the object is held (storage and owning handles)
  out,    \* the lines written to standard output
  last,   \* the most recent operation and the value it returned
  ub,     \* outcome of undefined behaviour, if any has been executed
  hnd,    \* the local variables of main (drivers only)
  pc      \* the statement main is at and how far it is evaluated (drivers only)

vars == <<heap, cells, own, out, last, ub, hnd, pc>>

ObjIds == DOMAIN heap
\* What a call that returns nothing returns.
Void == [void |-> TRUE]
FreeObj == [st |-> "free"]
FreeCell == [st |-> "free", val |-> Indeterminate, frees |-> 0, by |-> 0]
NotHeld == [disc |-> "none"]
\* The operation op was applied to object obj through a handle of static type
\* via, with arguments arg, and returned val.
Did(op, obj, via, val, arg) ==
  [op |-> op, obj |-> obj, via |-> via, val |-> val, arg |-> arg]
NoCall == Did("none", 0, "none", Void, <<>>)

\* The result v of a call of m as last records it: the string get_name
\* returns a reference to, or the double the other member functions return.
Ret(m, v) == IF m = "get_name" THEN [str |-> v] ELSE v

Live(o) == heap[o].st = "live"
IsA(o, c) == Live(o) /\ heap[o].kind = c

\* The object and the cell the next construction uses: ids are handed out in
\* order and never reused, so an id names one allocation.
HasFreeObj == \E o \in DOMAIN heap : heap[o].st = "free"
NextObj == CHOOSE o \in DOMAIN heap :
             heap[o].st = "free" /\ \A j \in DOMAIN heap : j < o => heap[j].st # "free"
NextCell == CHOOSE p \in DOMAIN cells :
              cells[p].st = "free" /\ \A j \in DOMAIN cells : j < p => cells[j].st # "free"

\* How a newly created object is held: automatic storage, a raw pointer from
\* new, make_unique or make_shared.
Held(d, c) ==
  CASE d = "unique" -> [disc |-> "unique", static |-> c]
    [] d = "shared" -> [disc |-> "shared", use |-> 1]
    [] OTHER -> [disc |-> d]

\* A client that will construct at most n objects, before it has constructed any.
ClientInit(n) ==
  /\ heap = [o \in 1 .. n |-> FreeObj]
  /\ cells = [p \in 1 .. n |-> FreeCell]
  /\ own = [o \in 1 .. n |-> NotHeld]
  /\ out = <<>>
  /\ last = NoCall
  /\ ub = "none"
  /\ hnd = <<>>
  /\ pc = [at |-> 0, k |-> 0, name |-> -1, num |-> [n |-> 0, d |-> 0]]

Running == ub # "aborted"

\* --------------------------------------------------------- construction
\* An object of class c with members f comes to life, held as d.
Create(c, f, d, args) ==
  /\ heap' = [heap EXCEPT ![NextObj] = [st |-> "live", kind |-> c, f |-> f]]
  /\ own' = [own EXCEPT ![NextObj] = Held(d, c)]
  /\ last' = Did("construct", NextObj, c, Void, args)

NewCircle(names, radii, discs) ==
  /\ Running /\ HasFreeObj
  /\ \E name \in names, radius \in radii, d \in discs :
       Create("Circle", CircleCtor(name, radius), d, <<name, radius>>)
  /\ UNCHANGED <<cells, out, ub, hnd, pc>>

NewRectangle(names, sides, discs) ==
  /\ Running /\ HasFreeObj
  /\ \E name \in names, s \in sides, d \in discs :
       Create("Rectangle", RectangleCtor(name, s[1], s[2]), d, <<name, s[1], s[2]>>)
  /\ UNCHANGED <<cells, out, ub, hnd, pc>>

NewSquare(names, sides, discs) ==
  /\ Running /\ HasFreeObj
  /\ \E name \in names, side \in sides, d \in discs :
       Create("Square", SquareCtor(name, side), d, <<name, side>>)
  /\ UNCHANGED <<cells, out, ub, hnd, pc>>

\* m_angled_side_length = new double; *m_angled_side_length = sqrt(...)
NewTrapezoid(names, dims, discs) ==
  /\ Running /\ HasFreeObj
  /\ \E name \in names, t \in dims, d \in discs :
       LET made == TrapezoidCtor(name, t[1], t[2], t[3], NextCell)
       IN  /\ Create("Trapezoid", made.obj, d, <<name, t[1], t[2], t[3]>>)
           /\ cells' = [cells EXCEPT ![NextCell] =
                          [st |-> "alloc", val |-> made.pointee, frees |-> 0,
                           by |-> NextObj]]
  /\ UNCHANGED <<out, ub, hnd, pc>>

\* The implicitly defined copy constructor (no class declares one): a new
\* object of the same class with every member copied, pointers included.
CopyConstruct(discs) ==
  /\ Running /\ HasFreeObj
  /\ \E src \in ObjIds, d \in discs :
       /\ Live(src)
       /\ Create(heap[src].kind, heap[src].f, d, <<src>>)
  /\ UNCHANGED <<cells, out, ub, hnd, pc>>

\* ------------------------------------------------------------ destruction
\* delete p for each address the destructor bodies delete.  Deleting a double
\* that is no longer allocated is undefined: the run aborts or goes on.
Release(dels) ==
  /\ cells' = [p \in DOMAIN cells |->
                 IF p \in dels
                   THEN [cells[p] EXCEPT !.st = "released", !.val = Indeterminate,
                                         !.frees = @ + 1]
                   ELSE cells[p]]
  /\ IF \E p \in dels : cells[p].st # "alloc"
       THEN ub' \in {"aborted", "unnoticed"}
       ELSE ub' = ub

\* The destructors of o run, entered through a handle of static type static,
\* and the object's life ends; ran records the destructor bodies that ran.
Dying(o, static) ==
  /\ Release(DtorDeletes(DtorChain(static, heap[o].kind), heap[o].f))
  /\ heap' = [heap EXCEPT ![o] = [st |-> "dead", kind |-> heap[o].kind,
                                  ran |-> DtorChain(static, heap[o].kind)]]

\* The object o is destroyed through a handle of static type static.
Destroy(o, static) ==
  /\ Dying(o, static)
  /\ own' = [own EXCEPT ![o] = NotHeld]
  /\ last' = Did("destroy", o, static, Void, <<>>)

\* An object with automatic storage goes out of scope.
DestroyAuto ==
  /\ Running
  /\ \E o \in ObjIds :
       /\ Live(o) /\ own[o].disc = "auto"
       /\ Destroy(o, heap[o].kind)
  /\ UNCHANGED <<out, hnd, pc>>

\* delete p, where p is a pointer to the object or to one of its bases.
DeleteRaw ==
  /\ Running
  /\ \E o \in ObjIds :
       /\ Live(o) /\ own[o].disc = "raw"
       /\ \E static \in StaticTypes(heap[o].kind) : Destroy(o, static)
  /\ UNCHANGED <<out, hnd, pc>>

\* unique_ptr<Base> b = std::move(d): the owner's static type becomes a base.
UniqueConvert ==
  /\ Running
  /\ \E o \in ObjIds :
       /\ Live(o) /\ own[o].disc = "unique"
       /\ \E static \in StaticTypes(own[o].static) \ {own[o].static} :
            own' = [own EXCEPT ![o].static = static]
       /\ last' = Did("move", o, own[o].static, Void, <<>>)
  /\ UNCHANGED <<heap, cells, out, ub, hnd, pc>>

\* The unique_ptr goes away: default_delete<T> deletes through its T*.
UniqueDrop ==
  /\ Running
  /\ \E o \in ObjIds :
       /\ Live(o) /\ own[o].disc = "unique"
       /\ Destroy(o, own[o].static)
  /\ UNCHANGED <<out, hnd, pc>>

\* Another shared_ptr (of any static type) is copied from one holding o.
SharedCopy ==
  /\ Running
  /\ \E o \in ObjIds :
       /\ Live(o) /\ own[o].disc = "shared" /\ own[o].use < MaxUse
       /\ own' = [own EXCEPT ![o].use = @ + 1]
       /\ last' = Did("share", o, heap[o].kind, Void, <<>>)
  /\ UNCHANGED <<heap, cells, out, ub, hnd, pc>>

\* A shared_ptr holding o goes away; the last one destroys the object as the
\* class make_shared created it with (the control block's own destructor call).
SharedDrop ==
  /\ Running
  /\ \E o \in ObjIds :
       /\ Live(o) /\ own[o].disc = "shared"
       /\ IF own[o].use > 1
            THEN /\ own' = [own EXCEPT ![o].use = @ - 1]
                 /\ last' = Did("unshare", o, heap[o].kind, Void, <<>>)
                 /\ UNCHANGED <<heap, cells, ub>>
            ELSE Destroy(o, heap[o].kind)
  /\ UNCHANGED <<out, hnd, pc>>

\* ------------------------------------------------------------------ calls
\* h->m(), h a handle of static type static to the live object o.
CallOn(o, static, m) ==
  LET r == Call(static, heap[o].kind, m, heap[o].f)
  IN  /\ Len(out) + Len(r.lines) <= MaxOut
      /\ out' = out \o r.lines
      /\ last' = Did(m, o, static, Ret(m, r.val), <<>>)

CallGetArea ==
  /\ Running
  /\ \E o \in ObjIds :
       /\ Live(o)
       /\ \E static \in StaticTypes(heap[o].kind) : CallOn(o, static, "get_area")
  /\ UNCHANGED <<heap, cells, own, ub, hnd, pc>>

CallGetPerimeter ==
  /\ Running
  /\ \E o \in ObjIds :
       /\ Live(o)
       /\ \E static \in StaticTypes(heap[o].kind) : CallOn(o, static, "get_perimeter")
  /\ UNCHANGED <<heap, cells, own, ub, hnd, pc>>

CallGetName ==
  /\ Running
  /\ \E o \in ObjIds :
       /\ Live(o)
       /\ \E static \in StaticTypes(heap[o].kind) : CallOn(o, static, "get_name")
  /\ UNCHANGED <<heap, cells, own, ub, hnd, pc>>

\* h->get_name() = name: a write through the reference get_name returns.
SetName(names) ==
  /\ Running
  /\ \E o \in ObjIds, name \in names :
       /\ Live(o)
       /\ \E static \in StaticTypes(heap[o].kind) :
            /\ Call(static, heap[o].kind, "get_name", heap[o].f).val = heap[o].f.m_name
            /\ last' = Did("set_name", o, static, Void, <<name>>)
       /\ heap' = [heap EXCEPT ![o].f.m_name = name]
  /\ UNCHANGED <<cells, own, out, ub, hnd, pc>>

\* c.m_radius = v, c.m_area = v or c.m_perimeter = v: the data members of
\* Circle are declared public.
WriteCircleMember(values) ==
  /\ Running
  /\ \E o \in ObjIds, m \in {"m_radius", "m_area", "m_perimeter"}, v \in values :
       /\ IsA(o, "Circle")
       /\ heap' = [heap EXCEPT ![o].f[m] = v]
       /\ last' = Did("write", o, "Circle", Void, <<m, v>>)
  /\ UNCHANGED <<cells, own, out, ub, hnd, pc>>

\* ------------------------------------------------ the client specifications
\* The values a client constructs shapes with: those of the two main()s and
\* others (zero, negative, a side with more than six significant digits, a
\* trapezoid whose slanted side is rational, one whose long side is shorter).
Names == {"the hole", "the box"}
Radii == {QInt(2), QInt(0), QInt(-1)}
RectSides == {<<QInt(3), QInt(4)>>, <<QInt(4), QInt(5)>>, <<QInt(-1), QInt(2)>>}
SquareSides == {QInt(1), Q(513, 512), QInt(-2)}
TrapDims == {<<QInt(4), QInt(2), QInt(1)>>, <<QInt(8), QInt(2), QInt(4)>>,
             <<QInt(1), QInt(3), QInt(-1)>>}

\* A client that constructs shapes, calls their member functions through
\* handles of every static type, renames them and lets them go out of scope.
Next ==
  \/ NewCircle(Names, Radii, {"auto"})
  \/ NewRectangle(Names, RectSides, {"auto"})
  \/ NewSquare(Names, SquareSides, {"auto"})
  \/ NewTrapezoid(Names, TrapDims, {"auto"})
  \/ CallGetArea
  \/ CallGetPerimeter
  \/ CallGetName
  \/ SetName(Names)
  \/ DestroyAuto

Init == ClientInit(MaxShapes)

Spec == Init /\ [][Next]_vars

\* The same client, also writing the public data members of Circle.
NextPublic ==
  \/ Next
  \/ WriteCircleMember({QInt(0)})

SpecPublic == Init /\ [][NextPublic]_vars

\* A client that creates shapes with new, make_unique and make_shared, holds
\* them through handles of their own and of base types, and destroys them.
OwnDiscs == {"raw", "unique", "shared"}

NextOwn ==
  \/ NewCircle({"the hole"}, {QInt(2)}, OwnDiscs)
  \/ NewRectangle({"the table"}, {<<QInt(3), QInt(4)>>}, OwnDiscs)
  \/ NewSquare({"the box"}, {QInt(1)}, OwnDiscs)
  \/ NewTrapezoid({"the stand"}, {<<QInt(4), QInt(2), QInt(1)>>}, OwnDiscs)
  \/ DeleteRaw
  \/ UniqueConvert
  \/ UniqueDrop
  \/ SharedCopy
  \/ SharedDrop

InitOwn == ClientInit(MaxObjs)

SpecOwn == InitOwn /\ [][NextOwn]_vars

\* The same client, also copying shapes.
NextCopy ==
  \/ NextOwn
  \/ CopyConstruct(OwnDiscs)

SpecCopy == InitOwn /\ [][NextCopy]_vars

\* A client that constructs several shapes, calls their member functions and
\* renames them.
NextNames ==
  \/ NewCircle(Names, {QInt(2)}, {"auto"})
  \/ NewRectangle(Names, {<<QInt(3), QInt(4)>>}, {"auto"})
  \/ NewSquare(Names, {QInt(1)}, {"auto"})
  \/ NewTrapezoid(Names, {<<QInt(4), QInt(2), QInt(1)>>}, {"auto"})
  \/ CallGetArea
  \/ CallGetPerimeter
  \/ CallGetName
  \/ SetName(Names)
  \/ DestroyAuto

SpecNames == InitOwn /\ [][NextNames]_vars

\* ------------------------------------------------------------ the drivers
\* main() is a sequence of statements.  A statement that prints a name and a
\* number, cout<<label<<h.get_name()<<" is: "<<h.get_area()<<endl, is evaluated
\* in steps: the two calls and the five insertions.  The insertions run left
\* to right and each call runs before the insertion that takes its result;
\* beyond that the order is unspecified (the files are compiled as C++11).
\* Where main is: statement at, k steps of it done, and the results of the
\* calls of a printing statement once they are made (name: the object whose
\* m_name the returned reference names; num: the double returned).
NoName == -1
NoNum == [n |-> 0, d |-> 0]
BadNum == [n |-> 1, d |-> 0]
At(i) == [at |-> i, k |-> 0, name |-> NoName, num |-> NoNum]
Done == At(0)

New(v, c, name, args) == [op |-> "new", var |-> v, class |-> c, name |-> name, args |-> args]
Bind(v, from) == [op |-> "bind", var |-> v, from |-> from]
Copy(v, from) == [op |-> "copy", var |-> v, from |-> from]
Say(chunks) == [op |-> "say", chunks |-> chunks]
Show(label, v, m) == [op |-> "show", label |-> label, var |-> v, m |-> m]
Delete(v) == [op |-> "delete", var |-> v]
Return == [op |-> "return"]

\* The constructor call of a new-expression or of make_shared/make_unique.
Construct(c, name, a, p) ==
  CASE c = "Circle" -> [obj |-> CircleCtor(name, a[1]), pointee |-> Void]
    [] c = "Rectangle" -> [obj |-> RectangleCtor(name, a[1], a[2]), pointee |-> Void]
    [] c = "Square" -> [obj |-> SquareCtor(name, a[1]), pointee |-> Void]
    [] c = "Trapezoid" -> TrapezoidCtor(name, a[1], a[2], a[3], p)

DriverInit(decls, nobjs) ==
  /\ ClientInit(nobjs)!1
  /\ ClientInit(nobjs)!2
  /\ ClientInit(nobjs)!3
  /\ out = <<>>
  /\ last = NoCall
  /\ ub = "none"
  /\ hnd = [v \in DOMAIN decls |-> decls[v] @@ [obj |-> 0]]
  /\ pc = At(1)

AtStmt(prog, op) ==
  /\ Running
  /\ pc.at \in 1 .. Len(prog)
  /\ prog[pc.at].op = op

\* The handle v refers to a live object.
Valid(v) == hnd[v].obj # 0 /\ heap[hnd[v].obj].st = "live"

\* A handle to a deleted object is used: undefined.
Misuse(o, via) ==
  /\ ub' \in {"aborted", "unnoticed"}
  /\ last' = Did("misuse", o, via, Void, <<>>)

\* T* v = new T(...), or a smart pointer v = make_shared<T>/make_unique<T>(...).
StmtNew(prog) ==
  /\ AtStmt(prog, "new")
  /\ LET s == prog[pc.at]
         made == Construct(s.class, s.name, s.args, NextCell)
     IN  /\ Create(s.class, made.obj, hnd[s.var].kind, <<s.name>> \o s.args)
         /\ hnd' = [hnd EXCEPT ![s.var].obj = NextObj]
         /\ IF s.class = "Trapezoid"
              THEN cells' = [cells EXCEPT ![NextCell] =
                               [st |-> "alloc", val |-> made.pointee, frees |-> 0,
                                by |-> NextObj]]
              ELSE cells' = cells
  /\ pc' = At(pc.at + 1)
  /\ UNCHANGED <<out, ub>>

\* Shape &v = *from: from is dereferenced.
StmtBind(prog) ==
  /\ AtStmt(prog, "bind")
  /\ LET s == prog[pc.at]
     IN  /\ hnd' = [hnd EXCEPT ![s.var].obj = hnd[s.from].obj]
         /\ IF Valid(s.from)
              THEN UNCHANGED <<last, ub>>
              ELSE Misuse(hnd[s.from].obj, hnd[s.from].static)
  /\ pc' = At(pc.at + 1)
  /\ UNCHANGED <<heap, cells, own, out>>

\* The new owner count of each object when a shared_ptr stops holding old and
\* starts holding new (0: no object); an object whose count reaches 0 is no
\* longer held.
Reseat(old, new) ==
  [o \in DOMAIN own |->
     LET gain == IF o = new THEN 1 ELSE 0
         loss == IF o = old THEN 1 ELSE 0
     IN  IF own[o].disc # "shared" \/ gain = loss THEN own[o]
         ELSE IF own[o].use + gain - loss = 0 THEN NotHeld
         ELSE [own[o] EXCEPT !.use = @ + gain - loss]]

\* A shared_ptr that held old now holds new: the counts change, and old is
\* destroyed (as the class it was made with) if that was its last owner.
SharedReseat(old, new) ==
  /\ own' = Reseat(old, new)
  /\ IF old # 0 /\ Live(old) /\ Reseat(old, new)[old] = NotHeld
       THEN /\ Dying(old, heap[old].kind)
            /\ last' = Did("destroy", old, heap[old].kind, Void, <<>>)
       ELSE UNCHANGED <<heap, cells, ub, last>>

\* v = from, or the initialisation of v from from: a pointer copy for raw
\* pointers, a change of owner counts for shared_ptr.
StmtCopy(prog) ==
  /\ AtStmt(prog, "copy")
  /\ LET s == prog[pc.at]
     IN  /\ hnd' = [hnd EXCEPT ![s.var].obj = hnd[s.from].obj]
         /\ IF hnd[s.var].kind = "shared"
              THEN SharedReseat(hnd[s.var].obj, hnd[s.from].obj)
              ELSE UNCHANGED <<heap, cells, own, ub, last>>
  /\ pc' = At(pc.at + 1)
  /\ UNCHANGED out

\* cout<<chunk<<...: one insertion at a time.
StmtSay(prog) ==
  /\ AtStmt(prog, "say")
  /\ LET s == prog[pc.at]
     IN  /\ out' = Append(out, <<s.chunks[pc.k + 1]>>)
         /\ pc' = IF pc.k + 1 = Len(s.chunks) THEN At(pc.at + 1)
                  ELSE [pc EXCEPT !.k = @ + 1]
  /\ UNCHANGED <<heap, cells, own, last, ub, hnd>>

\* h.get_name() inside a printing statement: the reference it returns is kept
\* until the insertion that prints it.
ShowEvalName(prog) ==
  /\ AtStmt(prog, "show")
  /\ pc.name = NoName
  /\ LET s == prog[pc.at]
         o == hnd[s.var].obj
     IN  IF Valid(s.var)
           THEN /\ last' = Did("get_name", o, hnd[s.var].static,
                                Ret("get_name", Call(hnd[s.var].static, heap[o].kind,
                                                     "get_name", heap[o].f).val),
                                <<>>)
                /\ pc' = [pc EXCEPT !.name = o]
                /\ ub' = ub
           ELSE /\ Misuse(o, hnd[s.var].static)
                /\ pc' = [pc EXCEPT !.name = o]
  /\ UNCHANGED <<heap, cells, own, out, hnd>>

\* h.get_area() or h.get_perimeter() inside a printing statement.
ShowEvalNum(prog) ==
  /\ AtStmt(prog, "show")
  /\ pc.num = NoNum
  /\ LET s == prog[pc.at]
         o == hnd[s.var].obj
     IN  IF Valid(s.var)
           THEN LET r == Call(hnd[s.var].static, heap[o].kind, s.m, heap[o].f)
                IN  /\ out' = out \o r.lines
                    /\ last' = Did(s.m, o, hnd[s.var].static, Ret(s.m, r.val), <<>>)
                    /\ pc' = [pc EXCEPT !.num = r.val]
                    /\ ub' = ub
           ELSE /\ Misuse(o, hnd[s.var].static)
                /\ pc' = [pc EXCEPT !.num = BadNum]
                /\ out' = out
  /\ UNCHANGED <<heap, cells, own, hnd>>

\* The text an insertion of the printing statement writes: the label, the
\* name, " is: ", the number, the end of the line.
ShowChunk(s, k) ==
  CASE k = 1 -> s.label
    [] k = 2 -> IF pc.name # 0 /\ heap[pc.name].st = "live"
                  THEN heap[pc.name].f.m_name ELSE Indeterminate
    [] k = 3 -> " is: "
    [] k = 4 -> IF pc.num = BadNum THEN Indeterminate ELSE FormatDouble(pc.num)
    [] k = 5 -> "\n"

ShowEmit(prog) ==
  /\ AtStmt(prog, "show")
  /\ pc.k + 1 = 2 => pc.name # NoName
  /\ pc.k + 1 = 4 => pc.num # NoNum
  /\ out' = Append(out, <<ShowChunk(prog[pc.at], pc.k + 1)>>)
  /\ pc' = IF pc.k + 1 = 5 THEN At(pc.at + 1) ELSE [pc EXCEPT !.k = @ + 1]
  /\ UNCHANGED <<heap, cells, own, last, ub, hnd>>

\* delete v
StmtDelete(prog) ==
  /\ AtStmt(prog, "delete")
  /\ LET s == prog[pc.at]
     IN  IF Valid(s.var)
           THEN Destroy(hnd[s.var].obj, hnd[s.var].static)
           ELSE /\ Misuse(hnd[s.var].obj, hnd[s.var].static)
                /\ UNCHANGED <<heap, cells, own>>
  /\ pc' = At(pc.at + 1)
  /\ UNCHANGED <<out, hnd>>

\* return 0: the local variables go out of scope, the last declared first.  A
\* raw pointer or a reference does nothing to its object, a unique_ptr deletes
\* it through its static type, a shared_ptr gives up its share.
StmtReturn(prog, locals) ==
  /\ AtStmt(prog, "return")
  /\ LET v == locals[Len(locals) - pc.k]
         o == hnd[v].obj
     IN  /\ hnd' = [hnd EXCEPT ![v].obj = 0]
         /\ CASE hnd[v].kind = "shared" -> SharedReseat(o, 0)
              [] hnd[v].kind = "unique" /\ o # 0 -> Destroy(o, hnd[v].static)
              [] OTHER -> UNCHANGED <<heap, cells, own, ub, last>>
  /\ pc' = IF pc.k + 1 = Len(locals) THEN Done ELSE [pc EXCEPT !.k = @ + 1]
  /\ UNCHANGED out

\* --------------------------------------------------- Shape.cc: main()
ManualLocals == <<"c", "s", "r", "s1", "q", "p", "t">>

ManualDecls ==
  [c |-> [kind |-> "raw", static |-> "Circle"],
   s |-> [kind |-> "ref", static |-> "Shape"],
   r |-> [kind |-> "raw", static |-> "Rectangle"],
   s1 |-> [kind |-> "raw", static |-> "Shape"],
   q |-> [kind |-> "raw", static |-> "Square"],
   p |-> [kind |-> "raw", static |-> "Polygon"],
   t |-> [kind |-> "raw", static |-> "Trapezoid"]]

ManualMainKeepsP ==
  << New("c", "Circle", "the hole", <<QInt(2)>>),
     Bind("s", "c"),
     Say(<<"Using Shape reference to Circle object: ", "\n">>),
     Show("The area of ", "s", "get_area"),
     Show("The perimeter of ", "s", "get_perimeter"),
     Say(<<"\n">>),
     Delete("c"),
     New("r", "Rectangle", "the table", <<QInt(3), QInt(4)>>),
     Copy("s1", "r"),
     Say(<<"Using Shape pointer to Rectangle object: ", "\n">>),
     Show("The area of ", "s1", "get_area"),
     Show("The perimeter of ", "s1", "get_perimeter"),
     Say(<<"\n">>),
     Delete("s1"),
     New("q", "Square", "the box", <<QInt(1)>>),
     Copy("p", "q"),
     Say(<<"Calling from Square object: ", "\n">>),
     Show("The area of ", "q", "get_area"),
     Show("The perimeter of ", "q", "get_perimeter"),
     Say(<<"\n">>),
     Say(<<"Calling from Polygon pointer to Square object: ", "\n">>),
     Show("The area of ", "p", "get_area"),
     Show("The perimeter of ", "p", "get_perimeter"),
     Delete("p"),
     New("t", "Trapezoid", "the stand", <<QInt(4), QInt(2), QInt(1)>>),
     Say(<<"Calling from Polygon pointer to Trapezoid object: ", "\n">>),
     Show("The area of ", "p", "get_area"),
     Show("The perimeter of ", "p", "get_perimeter"),
     Say(<<"\n">>),
     Delete("p"),
     Return >>

ManualMain ==
  << New("c", "Circle", "the hole", <<QInt(2)>>),
     Bind("s", "c"),
     Say(<<"Using Shape reference to Circle object: ", "\n">>),
     Show("The area of ", "s", "get_area"),
     Show("The perimeter of ", "s", "get_perimeter"),
     Say(<<"\n">>),
     Delete("c"),
     New("r", "Rectangle", "the table", <<QInt(3), QInt(4)>>),
     Copy("s1", "r"),
     Say(<<"Using Shape pointer to Rectangle object: ", "\n">>),
     Show("The area of ", "s1", "get_area"),
     Show("The perimeter of ", "s1", "get_perimeter"),
     Say(<<"\n">>),
     Delete("s1"),
     New("q", "Square", "the box", <<QInt(1)>>),
     Copy("p", "q"),
     Say(<<"Calling from Square object: ", "\n">>),
     Show("The area of ", "q", "get_area"),
     Show("The perimeter of ", "q", "get_perimeter"),
     Say(<<"\n">>),
     Say(<<"Calling from Polygon pointer to Square object: ", "\n">>),
     Show("The area of ", "p", "get_area"),
     Show("The perimeter of ", "p", "get_perimeter"),
     Delete("p"),
     New("t", "Trapezoid", "the stand", <<QInt(4), QInt(2), QInt(1)>>),
     Copy("p", "t"),
     Say(<<"Calling from Polygon pointer to Trapezoid object: ", "\n">>),
     Show("The area of ", "p", "get_area"),
     Show("The perimeter of ", "p", "get_perimeter"),
     Say(<<"\n">>),
     Delete("p"),
     Return >>

\* The objects main() of Shape.cc creates with new.
ManualObjs == 4

InitManual == DriverInit(ManualDecls, ManualObjs)

NextManual ==
  \/ StmtNew(ManualMain)
  \/ StmtBind(ManualMain)
  \/ StmtCopy(ManualMain)
  \/ StmtSay(ManualMain)
  \/ ShowEvalName(ManualMain)
  \/ ShowEvalNum(ManualMain)
  \/ ShowEmit(ManualMain)
  \/ StmtDelete(ManualMain)
  \/ StmtReturn(ManualMain, ManualLocals)

SpecManual == InitManual /\ [][NextManual]_vars

\* ----------------------------------------------- Shape_RAII.cc: main()
RaiiLocals == <<"c", "s", "r1", "r", "s1", "q", "p", "t">>

RaiiDecls ==
  [c |-> [kind |-> "shared", static |-> "Circle"],
   s |-> [kind |-> "ref", static |-> "Shape"],
   r1 |-> [kind |-> "unique", static |-> "Rectangle"],
   r |-> [kind |-> "shared", static |-> "Rectangle"],
   s1 |-> [kind |-> "shared", static |-> "Shape"],
   q |-> [kind |-> "shared", static |-> "Square"],
   p |-> [kind |-> "shared", static |-> "Polygon"],
   t |-> [kind |-> "shared", static |-> "Trapezoid"]]

RaiiMain ==
  << New("c", "Circle", "the hole", <<QInt(2)>>),
     Bind("s", "c"),
     Say(<<"Using Shape reference to Circle object: ", "\n">>),
     Show("The area of ", "s", "get_area"),
     Show("The perimeter of ", "s", "get_perimeter"),
     Say(<<"\n">>),
     New("r1", "Rectangle", "the table", <<QInt(3), QInt(4)>>),
     New("r", "Rectangle", "the table", <<QInt(4), QInt(5)>>),
     Copy("s1", "r"),
     Say(<<"Using Shape pointer to Rectangle object: ", "\n">>),
     Show("The area of ", "s1", "get_area"),
     Show("The perimeter of ", "s1", "get_perimeter"),
     Say(<<"\n">>),
     New("q", "Square", "the box", <<QInt(1)>>),
     Copy("p", "q"),
     Say(<<"Calling from Square object: ", "\n">>),
     Show("The area of ", "q", "get_area"),
     Show("The perimeter of ", "q", "get_perimeter"),
     Say(<<"\n">>),
     Say(<<"Calling from Polygon pointer to Square object: ", "\n">>),
     Show("The area of ", "p", "get_area"),
     Show("The perimeter of ", "p", "get_perimeter"),
     New("t", "Trapezoid", "the stand", <<QInt(4), QInt(2), QInt(1)>>),
     Copy("p", "t"),
     Say(<<"Calling from Polygon pointer to Trapezoid object: ", "\n">>),
     Show("The area of ", "p", "get_area"),
     Show("The perimeter of ", "p", "get_perimeter"),
     Say(<<"\n">>),
     Return >>

\* The objects main() of Shape_RAII.cc creates with make_shared and make_unique.
RaiiObjs == 5

InitRAII == DriverInit(RaiiDecls, RaiiObjs)

NextRAII ==
  \/ StmtNew(RaiiMain)
  \/ StmtBind(RaiiMain)
  \/ StmtCopy(RaiiMain)
  \/ StmtSay(RaiiMain)
  \/ ShowEvalName(RaiiMain)
  \/ ShowEvalNum(RaiiMain)
  \/ ShowEmit(RaiiMain)
  \/ StmtReturn(RaiiMain, RaiiLocals)

SpecRAII == InitRAII /\ [][NextRAII]_vars


\* ------------------------------------------------ destruction (SpecOwn)
\* C1: an object destroyed through a raw pointer, a unique_ptr or a shared_ptr
\* of any static type (its own class, Polygon or Shape) has run the destructor
\* bodies of its own class and of all its bases, and the double a Trapezoid
\* allocated is allocated while the Trapezoid lives and has been deleted
\* exactly once when it is dead; no undefined behaviour is executed.
DestroyedThroughBaseOnce ==
  /\ ub = "none"
  /\ \A o \in ObjIds : heap[o].st = "dead" => heap[o].ran = Lineage(heap[o].kind)
  /\ \A p \in DOMAIN cells :
       cells[p].st # "free" =>
         LET o == cells[p].by
         IN  /\ heap[o].st \in {"live", "dead"}
             /\ heap[o].st = "live" => cells[p].st = "alloc" /\ cells[p].frees = 0
             /\ heap[o].st = "dead" => cells[p].st = "released" /\ cells[p].frees = 1
  /\ \A o \in ObjIds :
       heap[o].st # "free" /\ heap[o].kind = "Trapezoid" =>
         \E p \in DOMAIN cells : cells[p].st # "free" /\ cells[p].by = o

\* A Trapezoid has been destroyed through a Shape or Polygon handle.
TrapezoidDestroyedThroughBase ==
  /\ last.op = "destroy"
  /\ last.via \in {"Shape", "Polygon"}
  /\ heap[last.obj].st = "dead"
  /\ heap[last.obj].kind = "Trapezoid"
  /\ \E p \in DOMAIN cells : cells[p].by = last.obj /\ cells[p].frees = 1


\* --------------------------------------------------- copying (SpecCopy)
\* C2: in every state reached by constructing, copying and destroying shapes,
\* no two live Trapezoids hold the same address in m_angled_side_length and
\* no live Trapezoid holds the address of a double that has been deleted.
EachInstanceStandsAlone ==
  /\ \A a, b \in ObjIds :
       a # b /\ IsA(a, "Trapezoid") /\ IsA(b, "Trapezoid") =>
         heap[a].f.m_angled_side_length # heap[b].f.m_angled_side_length
  /\ \A a \in ObjIds :
       IsA(a, "Trapezoid") => cells[heap[a].f.m_angled_side_length].st = "alloc"

\* ------------------------------------------------------ Square (Spec)
\* The step is a call of m made through a handle to a live object of class c.
IsCall(m, c) == last'.op = m /\ IsA(last'.obj, c)

\* C3: a Square constructed with side s returns from get_perimeter(), through
\* a Square, Rectangle, Polygon or Shape handle, what get_perimeter() of
\* Rectangle(s,s) returns, 2*(s+s), and writes nothing; each call of get_area()
\* returns s*s and appends exactly the one line "The square of <s>!" to the
\* output, and no other operation writes anything.
SquareAreaSaysItsLine ==
  /\ [](\A o \in ObjIds :
          IsA(o, "Square") =>
            LET f == heap[o].f
                s == f.m_side1
                rect == RectangleCtor(f.m_name, s, s)
            IN  /\ last.op = "construct" /\ last.obj = o => s = last.arg[2]
                /\ \A T \in StaticTypes("Square") :
                     /\ Call(T, "Square", "get_perimeter", f) =
                          Call("Rectangle", "Rectangle", "get_perimeter", rect)
                     /\ Call(T, "Square", "get_perimeter", f) =
                          [val |-> QAdd(QAdd(s, s), QAdd(s, s)), lines |-> <<>>]
                     /\ Call(T, "Square", "get_area", f).val = QMul(s, s))
  /\ [][IF IsCall("get_area", "Square")
          THEN LET s == heap[last'.obj].f.m_side1
               IN  /\ out' = Append(out, <<"The square of ", FormatDouble(s), "!", "\n">>)
                   /\ last'.val = QMul(s, s)
          ELSE out' = out]_vars

\* get_area() has been called twice on a Square, the second time through a
\* Shape handle, and both lines are in the output.
SquareAreaCalledTwice ==
  /\ last.op = "get_area" /\ last.via = "Shape"
  /\ IsA(last.obj, "Square")
  /\ Len(out) = 2
  /\ out[1] = out[2]

\* --------------------------------------------------- Rectangle (Spec)
\* C6: a Rectangle constructed with sides a and b, of any sign, returns a*b
\* from get_area() and 2*(a+b) from get_perimeter(), through a Rectangle,
\* Polygon or Shape handle, and the calls write nothing.
RectangleAreaAndPerimeter ==
  \A o \in ObjIds :
    IsA(o, "Rectangle") =>
      LET f == heap[o].f
          a == f.m_side1
          b == f.m_side2
      IN  /\ last.op = "construct" /\ last.obj = o => a = last.arg[2] /\ b = last.arg[3]
          /\ \A T \in StaticTypes("Rectangle") :
               /\ Call(T, "Rectangle", "get_area", f) =
                    [val |-> QMul(a, b), lines |-> <<>>]
               /\ Call(T, "Rectangle", "get_perimeter", f) =
                    [val |-> QAdd(QAdd(a, b), QAdd(a, b)), lines |-> <<>>]
          /\ last.op = "get_area" /\ last.obj = o => last.val = QMul(a, b)
          /\ last.op = "get_perimeter" /\ last.obj = o =>
               last.val = QAdd(QAdd(a, b), QAdd(a, b))

\* get_perimeter() of a Rectangle with a negative side has been called
\* through a Shape handle.
NegativeRectangleThroughShape ==
  /\ last.op = "get_perimeter" /\ last.via = "Shape"
  /\ IsA(last.obj, "Rectangle")
  /\ heap[last.obj].f.m_side1 = QInt(-1)
  /\ last.val = QInt(2)



\* ------------------------------------------------- Circle (SpecPublic)
\* The Circle o has just been constructed.
JustMade(o, c) == last.op = "construct" /\ last.via = c /\ last.obj = o

\* x lies strictly between the products of y with lo and with hi.
Between(x, y, lo, hi) ==
  IF y.n > 0 THEN QLt(QMul(y, lo), x) /\ QLt(x, QMul(y, hi))
  ELSE IF y.n < 0 THEN QLt(QMul(y, hi), x) /\ QLt(x, QMul(y, lo))
  ELSE x.n = 0

\* C4 as stated: a Circle constructed with radius r has get_area() = r*r*pi
\* and get_perimeter() = 2*r*pi, where pi is the circle constant, which lies
\* strictly between 3.14159 and 3.1416.
CircleUsesPi ==
  \A o \in ObjIds :
    IsA(o, "Circle") /\ JustMade(o, "Circle") =>
      LET r == last.arg[2]
          f == heap[o].f
      IN  /\ Between(Call("Circle", "Circle", "get_area", f).val, QMul(r, r),
                     Q(314159, 100000), Q(31416, 10000))
          /\ Between(Call("Circle", "Circle", "get_perimeter", f).val,
                     QAdd(r, r), Q(314159, 100000), Q(31416, 10000))

\* C4 as amended: a Circle constructed with radius r, of any sign, has
\* get_area() = r*r*3.14159 and get_perimeter() = 2*r*3.14159 right after its
\* construction, through a Circle or a Shape handle, and every call of the two
\* functions returns the member m_area or m_perimeter as it then is and
\* writes nothing.
CircleUsesConstant ==
  \A o \in ObjIds :
    IsA(o, "Circle") =>
      LET f == heap[o].f
      IN  /\ JustMade(o, "Circle") =>
               LET r == last.arg[2]
               IN  \A T \in StaticTypes("Circle") :
                     /\ Call(T, "Circle", "get_area", f) =
                          [val |-> Q(r.n * r.n * 314159, r.d * r.d * 100000),
                           lines |-> <<>>]
                     /\ Call(T, "Circle", "get_perimeter", f) =
                          [val |-> Q(2 * r.n * 314159, r.d * 100000), lines |-> <<>>]
          /\ last.op = "get_area" /\ last.obj = o => last.val = f.m_area
          /\ last.op = "get_perimeter" /\ last.obj = o => last.val = f.m_perimeter

\* get_perimeter() of a Circle of negative radius has been called through a
\* Shape handle.
NegativeCircleThroughShape ==
  /\ last.op = "get_perimeter" /\ last.via = "Shape"
  /\ IsA(last.obj, "Circle")
  /\ heap[last.obj].f.m_radius = QInt(-1)
  /\ last.val = Q(-314159, 50000)

\* ---------------------------------------------------- Trapezoid (Spec)
\* The double m_angled_side_length of the Trapezoid with members f points to.
AngledSide(f) == cells[f.m_angled_side_length].val

\* ((l - s)/2)^2 + h^2
Radicand(f) ==
  LET half == QHalf(QSub(f.m_long_side, f.m_short_side))
  IN  QAdd(QMul(half, half), QMul(f.m_height, f.m_height))

\* Through every handle: get_area() = h*(l+s)/2, get_perimeter() = s + l + 2a
\* where a is the stored slanted side, and the calls write nothing.
TrapezoidAreaAndPerimeter(f) ==
  \A T \in StaticTypes("Trapezoid") :
    /\ Call(T, "Trapezoid", "get_area", f) =
         [val |-> Q(f.m_height.n * (f.m_long_side.n + f.m_short_side.n), 2),
          lines |-> <<>>]
    /\ Call(T, "Trapezoid", "get_perimeter", f) =
         [val |-> QAdd(QAdd(f.m_short_side, f.m_long_side),
                       QAdd(AngledSide(f), AngledSide(f))),
          lines |-> <<>>]

\* C5 as stated: for every Trapezoid the square of the stored slanted side
\* equals ((l-s)/2)^2 + h^2, get_area() = h*(l+s)/2 and get_perimeter() =
\* s + l + 2*(slanted side); for l=4, s=2, h=1 the square is 2 and the area 3.
SlantedSideSquaredIsExact ==
  \A o \in ObjIds :
    IsA(o, "Trapezoid") =>
      LET f == heap[o].f
      IN  /\ QMul(AngledSide(f), AngledSide(f)) = Radicand(f)
          /\ TrapezoidAreaAndPerimeter(f)

\* Half the distance between neighbouring doubles at a > 0.
HalfUlp(a) == Scale2(QInt(1), SqrtExp(QMul(a, a), 0) - Prec)

\* C5 as amended: the stored slanted side a is the double nearest to the square
\* root of x = ((l-s)/2)^2 + h^2, that is (a - u)^2 <= x <= (a + u)^2 with u half
\* the spacing of doubles at a, so a*a = x only when the root is a double (for
\* l=8, s=2, h=4: a = 5); get_area() = h*(l+s)/2 and get_perimeter() =
\* s + l + 2a; for l=4, s=2, h=1 the area is 3, the perimeter 6 + 2a, and a*a
\* is close to 2 but not 2.
SlantedSideIsRoundedRoot ==
  \A o \in ObjIds :
    IsA(o, "Trapezoid") =>
      LET f == heap[o].f
          a == AngledSide(f)
          x == Radicand(f)
          l == f.m_long_side
          s == f.m_short_side
          h == f.m_height
      IN  /\ JustMade(o, "Trapezoid") => <<l, s, h>> = <<last.arg[2], last.arg[3], last.arg[4]>>
          /\ a.n > 0
          /\ QLe(PowTwo(QSub(a, HalfUlp(a))), x)
          /\ QLe(x, PowTwo(QAdd(a, HalfUlp(a))))
          /\ TrapezoidAreaAndPerimeter(f)
          /\ <<l, s, h>> = <<QInt(8), QInt(2), QInt(4)>> => a = QInt(5) /\ QMul(a, a) = x
          /\ <<l, s, h>> = <<QInt(4), QInt(2), QInt(1)>> =>
               /\ x = QInt(2) /\ QMul(a, a) # QInt(2)
               /\ Call("Polygon", "Trapezoid", "get_area", f).val = QInt(3)
               /\ Call("Polygon", "Trapezoid", "get_perimeter", f).val =
                    QAdd(QInt(6), QMul(QInt(2), a))
          /\ last.op = "get_area" /\ last.obj = o => last.val = f.m_area
          /\ last.op = "get_perimeter" /\ last.obj = o => last.val = f.m_perimeter

\* get_perimeter() of the Trapezoid with l=4, s=2, h=1 has been called through
\* a Polygon handle; the square of its slanted side is not 2.
StandPerimeterThroughPolygon ==
  /\ last.op = "get_perimeter" /\ last.via = "Polygon"
  /\ IsA(last.obj, "Trapezoid")
  /\ heap[last.obj].f.m_long_side = QInt(4)
  /\ heap[last.obj].f.m_height = QInt(1)
  /\ QMul(AngledSide(heap[last.obj].f), AngledSide(heap[last.obj].f)) # QInt(2)



\* ----------------------------------------------------- names (SpecNames)
\* C7: a shape is constructed with the name passed to its constructor;
\* get_name() returns the member m_name through a handle of any static type; no
\* call of get_area(), get_perimeter() or get_name(), and no construction or
\* destruction of another shape, changes a name: the name of a shape changes
\* only in a write through the reference get_name() returned for that shape,
\* and becomes the string written.
NameChangesOnlyByWriting ==
  /\ [](\A o \in ObjIds :
          Live(o) =>
            /\ last.op = "construct" /\ last.obj = o => heap[o].f.m_name = last.arg[1]
            /\ last.op = "get_name" /\ last.obj = o => last.val = [str |-> heap[o].f.m_name])
  /\ [][\A o \in ObjIds :
          Live(o) /\ heap'[o].st = "live" /\ heap'[o].f.m_name # heap[o].f.m_name =>
            /\ last'.op = "set_name"
            /\ last'.obj = o
            /\ heap'[o].f.m_name = last'.arg[1]
            /\ \A other \in ObjIds \ {o} : heap'[other] = heap[other]]_vars

\* get_name() has been called through a Shape handle on one of two live shapes
\* with different names, after a Square wrote its line.
NameReadThroughShape ==
  /\ last.op = "get_name" /\ last.via = "Shape"
  /\ out # <<>>
  /\ \E other \in ObjIds :
       /\ Live(other) /\ Live(last.obj)
       /\ heap[other].f.m_name # heap[last.obj].f.m_name
       /\ last.val = [str |-> heap[last.obj].f.m_name]

\* ------------------------------------------- attributes (SpecPublic)
\* C8: while a shape lives, get_area() and get_perimeter() keep returning the
\* same values; a call of either changes no member of any shape and writes
\* nothing, except the line of Square's get_area().
AttributesFixedAtConstruction ==
  [][/\ \A o \in ObjIds :
          Live(o) /\ heap'[o].st = "live" =>
            /\ heap'[o].f.m_area = heap[o].f.m_area
            /\ heap'[o].f.m_perimeter = heap[o].f.m_perimeter
     /\ last'.op \in {"get_area", "get_perimeter"} =>
          /\ heap' = heap
          /\ out' = out \/ IsCall("get_area", "Square")]_vars

\* ------------------------------------------ Shape_RAII.cc (SpecRAII)
\* The local variables of main that own the object o.
Owners(o) == {v \in DOMAIN hnd : hnd[v].kind \in {"shared", "unique"} /\ hnd[v].obj = o}

\* The doubles allocated by Trapezoids are allocated while their Trapezoid
\* lives and deleted once when it is dead.
CellsFollowObjects ==
  \A p \in DOMAIN cells :
    cells[p].st # "free" =>
      /\ heap[cells[p].by].st = "live" => cells[p].st = "alloc" /\ cells[p].frees = 0
      /\ heap[cells[p].by].st = "dead" => cells[p].st = "released" /\ cells[p].frees = 1

ManualDeletesEachOnce ==
  /\ ub = "none"
  /\ last.op # "misuse"
  /\ CellsFollowObjects
  /\ \A o \in ObjIds : heap[o].st = "dead" => heap[o].ran = Lineage(heap[o].kind)
  /\ pc.at \in 3 .. 7 => hnd["s"].obj = hnd["c"].obj /\ Valid("c")
  /\ pc.at \in 10 .. 14 => hnd["s1"].obj = hnd["r"].obj /\ Valid("r")
  /\ pc.at \in 17 .. 24 => hnd["p"].obj = hnd["q"].obj /\ Valid("q")
  /\ pc.at \in 27 .. 31 => hnd["p"].obj = hnd["t"].obj /\ Valid("t")
  /\ pc = Done =>
       /\ \A o \in ObjIds : heap[o].st = "dead"
       /\ [o \in ObjIds |-> heap[o].kind] = <<"Circle", "Rectangle", "Square", "Trapezoid">>
       /\ \E p \in DOMAIN cells : cells[p].by = 4 /\ cells[p].frees = 1
       /\ \A p \in DOMAIN cells : cells[p].st # "alloc"

\* main of Shape.cc has returned; the Trapezoid was deleted through p.
ManualMainReturned ==
  /\ pc = Done
  /\ last.op = "destroy" /\ last.via = "Polygon"
  /\ heap[last.obj].kind = "Trapezoid"
  /\ \E p \in DOMAIN cells : cells[p].by = last.obj /\ cells[p].st = "released"


=============================================================================
